---- MODULE Spec2Model ----
(***************************************************************************)
(* libtwitch-rs: the credential lifecycle (src/src/lib.rs, Credentials),   *)
(* the request pipeline (TwitchClient::build_request, get, post, put,      *)
(* delete) and the OAuth2 authorization-URL generator (src/src/auth.rs).   *)
(*                                                                         *)
(* A Rust String is a sequence of characters (one-character TLA+ strings); *)
(* a string literal of the source is one token of such a sequence, so      *)
(* concatenation (`+`, format!) is \o.  Option<T> is a sequence of length  *)
(* at most one: None is <<>> and Some(x) is <<x>>.                         *)
(***************************************************************************)
EXTENDS Integers, Sequences, FiniteSets, TLC

None == <<>>
Some(x) == <<x>>
IsSome(o) == Len(o) = 1
unwrap(o) == o[1]

\* Bound of the model: the longest scope slice handed to the URL generator.
MaxScopes == 2

(***************************************************************************)
(* Values                                                                  *)
(***************************************************************************)
\* Strings a credential field may hold: empty, plain, one that TOML must
\* escape, and one (a line feed) that is no legal HTTP header value.
Strings == { <<>>, <<"a">>, <<"a", "\"">>, <<"\n">> }
OptStrings == {None} \cup {Some(s) : s \in Strings}

\* struct Credentials { client_id: Option<String>, token: Option<String> }
Credentials == [client_id : OptStrings, token : OptStrings]

\* What the process holds once it has panicked: no client at all.
NoCred == [client_id |-> None, token |-> None]

EnvNames == {"TWITCH_CLIENT_ID", "TWITCH_OAUTH_TOKEN"}
\* The process environment: each variable unset (None) or set.
Environments == [EnvNames -> {None, Some(<<"a">>)}]

(***************************************************************************)
(* The credential file: toml::to_string / toml::from_str on Credentials    *)
(***************************************************************************)
\* The file system entry at the credential path: no readable file, or text.
NoFile == [readable |-> FALSE, text |-> <<>>]
FileOf(text) == [readable |-> TRUE, text |-> text]

\* A basic TOML string escapes the quote, the backslash and control characters.
EscapeChar(c) ==
    CASE c = "\"" -> <<"\\", "\"">>
      [] c = "\\" -> <<"\\", "\\">>
      [] c = "\n" -> <<"\\", "n">>
      [] OTHER    -> <<c>>

RECURSIVE Escape(_)
Escape(s) == IF s = <<>> THEN <<>> ELSE EscapeChar(Head(s)) \o Escape(Tail(s))

\* A serializer that writes an absent field as an empty string.
TomlLine_none_as_empty(key, opt) ==
    <<key, " = ", "\"">> \o (IF IsSome(opt) THEN Escape(unwrap(opt)) ELSE <<>>)
        \o <<"\"", "\n">>

\* One `key = "value"` line; a None field is left out of the table.
TomlLine(key, opt) ==
    IF IsSome(opt)
    THEN <<key, " = ", "\"">> \o Escape(unwrap(opt)) \o <<"\"", "\n">>
    ELSE <<>>

\* toml::to_string(self).unwrap()
toml_to_string(c) == TomlLine("client_id", c.client_id) \o TomlLine("token", c.token)

\* Reads a basic string whose opening quote precedes position i: the value and
\* the position after the closing quote, or a parse error.
RECURSIVE ReadBasicString(_, _, _)
ReadBasicString(text, i, out) ==
    IF i > Len(text) THEN [ok |-> FALSE, val |-> <<>>, next |-> i]
    ELSE IF text[i] = "\"" THEN [ok |-> TRUE, val |-> out, next |-> i + 1]
    ELSE IF text[i] = "\n" THEN [ok |-> FALSE, val |-> <<>>, next |-> i]
    ELSE IF text[i] = "\\"
         THEN IF i + 1 > Len(text) THEN [ok |-> FALSE, val |-> <<>>, next |-> i]
              ELSE IF text[i + 1] = "n" THEN ReadBasicString(text, i + 2, Append(out, "\n"))
              ELSE IF text[i + 1] \in {"\"", "\\"}
                   THEN ReadBasicString(text, i + 2, Append(out, text[i + 1]))
              ELSE [ok |-> FALSE, val |-> <<>>, next |-> i]
    ELSE ReadBasicString(text, i + 1, Append(out, text[i]))

\* toml::from_str::<Credentials>: a table of `key = "value"` lines; an absent
\* key leaves its Option field None; a key given twice is a parse error.  The
\* files of the model hold no other keys.
RECURSIVE ParseToml(_, _, _)
ParseToml(text, i, acc) ==
    IF i > Len(text) THEN [ok |-> TRUE, cred |-> acc]
    ELSE IF i + 2 > Len(text) \/ text[i] \notin {"client_id", "token"}
            \/ text[i + 1] # " = " \/ text[i + 2] # "\""
         THEN [ok |-> FALSE, cred |-> NoCred]
    ELSE LET s == ReadBasicString(text, i + 3, <<>>) IN
         IF ~s.ok \/ s.next > Len(text) \/ text[s.next] # "\n" \/ IsSome(acc[text[i]])
         THEN [ok |-> FALSE, cred |-> NoCred]
         ELSE ParseToml(text, s.next + 1, [acc EXCEPT ![text[i]] = Some(s.val)])

toml_from_str(text) == ParseToml(text, 1, NoCred)

\* A credential file that is no TOML table of strings.
GarbageText == <<"client_id", " = ">>

Files == {NoFile, FileOf(GarbageText)} \cup {FileOf(toml_to_string(c)) : c \in Credentials}

(***************************************************************************)
(* State                                                                   *)
(***************************************************************************)
VARIABLES
    cred,        \* TwitchClient.cred: the Credentials the client owns
    client,      \* TwitchClient.client: the HTTP transport handle
    file,        \* the credential file on disk
    env,         \* the process environment
    pc,          \* "idle", "awaiting" (suspended at send().await), "done", "panicked"
    lastOp,      \* the operation invoked most recently
    path,        \* the path argument of the request in progress or just ended
    wire,        \* the request handed to the transport by this call
    dispatched,  \* how many requests this call has dispatched
    response,    \* what the transport delivered to this call
    decodes,     \* the decode attempts of this call, in order
    result,      \* the TwitchResult this call returned
    diag,        \* what this call wrote to standard error
    tokenSet,    \* history: the argument of the last set_oauth_token on this client
    saved,       \* history: the Credentials of the last completed save
    authArgs,    \* the arguments of the last authorization-URL call
    authUrl      \* the URL it returned

vars == <<cred, client, file, env, pc, lastOp, path, wire, dispatched, response,
          decodes, result, diag, tokenSet, saved, authArgs, authUrl>>

frame == <<path, wire, dispatched, response, decodes, result, diag>>
auth == <<authArgs, authUrl>>

\* A call's locals are gone once the next operation starts.
FrameReset ==
    /\ path' = None
    /\ wire' = None
    /\ dispatched' = 0
    /\ response' = None
    /\ decodes' = <<>>
    /\ result' = None
    /\ diag' = <<>>

(***************************************************************************)
(* Credentials                                                             *)
(***************************************************************************)
CredPath == <<"credentials.toml">>
FileArgs == {None, Some(CredPath)}

\* env::var(name).unwrap_or_default()
env_var_or_default(e, name) == IF IsSome(e[name]) THEN unwrap(e[name]) ELSE <<>>

\* Credentials::set_from_file: panics on an unreadable or unparsable file.
set_from_file(f) ==
    IF ~f.readable THEN [panic |-> TRUE, cred |-> NoCred]
    ELSE LET parsed == toml_from_str(f.text) IN
         IF parsed.ok
         THEN [panic |-> FALSE,
               cred |-> [client_id |-> parsed.cred.client_id, token |-> parsed.cred.token]]
         ELSE [panic |-> TRUE, cred |-> NoCred]

\* A constructor that falls back to the environment when the file fails.
Credentials_new_fallback(file_arg, f, e) ==
    LET from_env == [panic |-> FALSE,
                     cred |-> [client_id |-> Some(env_var_or_default(e, "TWITCH_CLIENT_ID")),
                               token |-> Some(env_var_or_default(e, "TWITCH_OAUTH_TOKEN"))]]
    IN  IF IsSome(file_arg) /\ ~set_from_file(f).panic THEN set_from_file(f) ELSE from_env

\* Credentials::new(file: Option<String>)
Credentials_new(file_arg, f, e) ==
    IF IsSome(file_arg)
    THEN set_from_file(f)
    ELSE [panic |-> FALSE,
          cred |-> [client_id |-> Some(env_var_or_default(e, "TWITCH_CLIENT_ID")),
                    token |-> Some(env_var_or_default(e, "TWITCH_OAUTH_TOKEN"))]]

\* fs::write creates (truncates) the file, then writes the content.
IoOutcomes == {"ok", "create_failed", "write_failed"}

\* Credentials::write_to_file: panics ("Error writing toml file") when fs::write fails.
write_to_file(c, f, io) ==
    CASE io = "ok"            -> [panic |-> FALSE, file |-> FileOf(toml_to_string(c))]
      [] io = "create_failed" -> [panic |-> TRUE, file |-> f]
      [] io = "write_failed"  -> [panic |-> TRUE, file |-> FileOf(<<>>)]

\* Client::builder().use_rustls_tls().build().unwrap()
ClientBuilder == [tls |-> "rustls"]

\* A TwitchClient built around Credentials::new(file_arg).
construct(file_arg) ==
    /\ pc # "awaiting"
    /\ LET c == Credentials_new(file_arg, file, env) IN
        /\ cred' = c.cred
        /\ pc' = IF c.panic THEN "panicked" ELSE "idle"
    /\ client' = ClientBuilder
    /\ lastOp' = IF IsSome(file_arg) THEN "new_file" ELSE "new_env"
    /\ tokenSet' = None
    /\ FrameReset
    /\ UNCHANGED <<file, env, saved, auth>>

\* pub fn new(file: String) -> TwitchClient: always a file path (Option::from(file)).
new == construct(Some(CredPath))

\* Credentials::save(&self, path)
save(io) ==
    /\ pc \in {"idle", "done"}
    /\ LET w == write_to_file(cred, file, io) IN
        /\ file' = w.file
        /\ pc' = IF w.panic THEN "panicked" ELSE "idle"
        /\ cred' = IF w.panic THEN NoCred ELSE cred
        /\ saved' = IF io = "ok" THEN Some(cred)
                    ELSE IF io = "create_failed" THEN saved ELSE None
    /\ lastOp' = "save"
    /\ FrameReset
    /\ UNCHANGED <<client, env, tokenSet, auth>>

\* A token setter that persists the credentials as it goes.
set_oauth_token_persisting(token) ==
    /\ pc \in {"idle", "done"}
    /\ cred' = [cred EXCEPT !.token = Some(token)]
    /\ file' = FileOf(toml_to_string(cred'))
    /\ pc' = "idle"
    /\ lastOp' = "set_oauth_token"
    /\ tokenSet' = Some(token)
    /\ FrameReset
    /\ UNCHANGED <<client, env, saved, auth>>

\* TwitchClient::set_oauth_token(&mut self, token)
set_oauth_token(token) ==
    /\ pc \in {"idle", "done"}
    /\ cred' = [cred EXCEPT !.token = Some(token)]
    /\ pc' = "idle"
    /\ lastOp' = "set_oauth_token"
    /\ tokenSet' = Some(token)
    /\ FrameReset
    /\ UNCHANGED <<client, file, env, saved, auth>>

\* The state after construction, shared by the specifications below.
InitFrame ==
    /\ path = None /\ wire = None /\ dispatched = 0 /\ response = None
    /\ decodes = <<>> /\ result = None /\ diag = <<>>
    /\ tokenSet = None /\ saved = None
    /\ authArgs = None /\ authUrl = None
    /\ client = ClientBuilder

(***************************************************************************)
(* Credential lifecycle: construction from a file or from the environment, *)
(* token rotation and saving.                                              *)
(***************************************************************************)
InitCred ==
    /\ file \in Files
    /\ env \in Environments
    /\ \E a \in FileArgs :
        LET c == Credentials_new(a, file, env) IN
        /\ cred = c.cred
        /\ pc = IF c.panic THEN "panicked" ELSE "idle"
        /\ lastOp = IF IsSome(a) THEN "new_file" ELSE "new_env"
    /\ InitFrame

NextCred ==
    \/ \E a \in FileArgs : construct(a)
    \/ \E t \in Strings : set_oauth_token(t)
    \/ \E io \in IoOutcomes : save(io)

SpecCred == InitCred /\ [][NextCred]_vars

(***************************************************************************)
(* Request pipeline                                                        *)
(***************************************************************************)
ApiRoot == <<"https://api.twitch.tv/kraken">>
AcceptV5 == <<"application/vnd.twitchtv.v5+json">>

Paths == { <<"/games/top">>, <<"/streams">> }

\* HeaderValue::try_from / str::parse::<HeaderValue>: control characters are refused.
ValidHeaderValue(s) == \A i \in 1..Len(s) : s[i] # "\n"

\* A builder that sends the token under the Bearer scheme.
build_request_bearer(c, method, p) ==
    IF ~IsSome(c.client_id) \/ ~IsSome(c.token)
       \/ ~ValidHeaderValue(unwrap(c.client_id)) \/ ~ValidHeaderValue(unwrap(c.token))
    THEN [panic |-> TRUE,
          req |-> [method |-> method, url |-> <<>>, headers |-> {}, body |-> None]]
    ELSE [panic |-> FALSE,
          req |-> [method |-> method,
                   url |-> ApiRoot \o p,
                   headers |-> { <<"Accept", AcceptV5>>,
                                 <<"Client-ID", unwrap(c.client_id)>>,
                                 <<"Authorization", <<"Bearer ">> \o unwrap(c.token)>> },
                   body |-> None]]

\* TwitchClient::build_request: the request builder for `method` on the root
\* URL plus path, with the three headers; each unwrap() panics on None / Err.
\* Header names are written as in the source (HTTP compares them without case).
build_request(c, method, p) ==
    LET NoReq == [method |-> method, url |-> <<>>, headers |-> {}, body |-> None] IN
    IF ~IsSome(c.client_id) \/ ~ValidHeaderValue(unwrap(c.client_id))
    THEN [panic |-> TRUE, req |-> NoReq]
    ELSE IF ~IsSome(c.token) \/ ~ValidHeaderValue(<<"OAuth ">> \o unwrap(c.token))
    THEN [panic |-> TRUE, req |-> NoReq]
    ELSE [panic |-> FALSE,
          req |-> [method |-> method,
                   url |-> ApiRoot \o p,
                   headers |-> { <<"Accept", AcceptV5>>,
                                 <<"Client-ID", unwrap(c.client_id)>>,
                                 <<"Authorization", <<"OAuth ">> \o unwrap(c.token)>> },
                   body |-> None]]

\* Response bodies, by how they decode.
BodyEmpty == ""
BodyNull == "null"
BodyTarget == "{\"top\":[]}"
BodyError == "{\"error\":\"Bad Request\",\"status\":400,\"message\":\"no\"}"
BodyBoth == "{}"
BodyGarbage == "<html>"
Bodies == {BodyEmpty, BodyNull, BodyTarget, BodyError, BodyBoth, BodyGarbage}

Statuses == {200, 500}

\* What the transport does with a dispatched request: no response at all
\* (None), a response whose body cannot be read, or a response with a body.
NetOutcomes ==
    {None}
    \cup {Some([status |-> st, body |-> BodyTarget, intact |-> FALSE]) : st \in Statuses}
    \cup {Some([status |-> st, body |-> b, intact |-> TRUE]) : st \in Statuses, b \in Bodies}

\* The errors of the libraries underneath.
LibError(lib, at, input) == [lib |-> lib, at |-> at, input |-> input]

\* The JSON texts each shape accepts: the caller's T, Option<T> (null is
\* None) and ErrorResponse.
Accepts(shape) ==
    CASE shape = "T"             -> {BodyTarget, BodyBoth}
      [] shape = "Option<T>"     -> {BodyTarget, BodyBoth, BodyNull}
      [] shape = "ErrorResponse" -> {BodyError, BodyBoth}

\* serde_json::from_str::<shape>(s)
from_str(shape, s) ==
    IF s \in Accepts(shape)
    THEN [ok |-> TRUE,
          val |-> Some([shape |-> shape, json |-> s, cause |-> None]),
          err |-> None]
    ELSE [ok |-> FALSE, val |-> None, err |-> Some(LibError("serde_json", shape, s))]

\* The four error kinds and the success value of a TwitchResult.
OkResult(v) == [kind |-> "Ok", value |-> Some(v), error |-> None]
empty_response == [kind |-> "EmptyResponse", value |-> None, error |-> None]
FromErrorResponse(e) == [kind |-> "ApiError", value |-> Some(e), error |-> None]
FromSerdeError(e) == [kind |-> "DecodeFailure", value |-> None, error |-> Some(e)]
FromReqwestError(e) == [kind |-> "TransportFailure", value |-> None, error |-> Some(e)]
FromIoError(e) == [kind |-> "TransportFailure", value |-> None, error |-> Some(e)]

Ends(res, attempts, out) == [result |-> res, decodes |-> attempts, diag |-> out]

\* get, after send().await: `?` on the send error, then Response::json::<Option<T>>
\* (which reads the body and decodes it, `?` on either failure), then the match.
get_finish(net) ==
    IF net = None
    THEN Ends(FromReqwestError(LibError("reqwest", "send", "")), <<>>, <<>>)
    ELSE IF ~unwrap(net).intact
    THEN Ends(FromReqwestError(LibError("reqwest", "body", "")), <<>>, <<>>)
    ELSE LET s == unwrap(net).body
             r == from_str("Option<T>", s)
             tried == << [shape |-> "Option<T>", input |-> s] >>
         IN  IF ~r.ok
             THEN Ends(FromReqwestError(LibError("reqwest", "decode", s)), tried, <<>>)
             ELSE IF s = BodyNull
             THEN Ends(empty_response, tried, <<>>)
             ELSE Ends(OkResult(unwrap(r.val)), tried, <<>>)

\* post, put and delete, after send().await: read_to_string, the empty test,
\* the decode as T, then as ErrorResponse, then the diagnostic.  The write to
\* standard error is taken to succeed (its unwrap() does not panic).
read_and_decode(net) ==
    IF net = None
    THEN Ends(FromReqwestError(LibError("reqwest", "send", "")), <<>>, <<>>)
    ELSE IF ~unwrap(net).intact
    THEN Ends(FromIoError(LibError("io", "read_to_string", "")), <<>>, <<>>)
    ELSE LET s == unwrap(net).body
             first == from_str("T", s)
             second == from_str("ErrorResponse", s)
             one == << [shape |-> "T", input |-> s] >>
             two == one \o << [shape |-> "ErrorResponse", input |-> s] >>
         IN  IF s = BodyEmpty
             THEN Ends(empty_response, <<>>, <<>>)
             ELSE IF first.ok
             THEN Ends(OkResult(unwrap(first.val)), one, <<>>)
             ELSE IF second.ok
             THEN Ends(FromErrorResponse([unwrap(second.val) EXCEPT !.cause = first.err]),
                       two, <<>>)
             ELSE Ends(FromSerdeError(unwrap(first.err)), two,
                       <<"Serde Parse Fail:\n\"", s, "\"\n">>)

\* A call begins: the client is borrowed until the call ends.
Invoke(op, p) ==
    /\ pc \in {"idle", "done"}
    /\ lastOp' = op
    /\ path' = Some(p)
    /\ UNCHANGED <<client, file, env, tokenSet, saved, auth>>

\* An unwrap() failed: the thread panics, nothing was dispatched.
Panics ==
    /\ pc' = "panicked"
    /\ cred' = NoCred
    /\ wire' = None /\ dispatched' = 0 /\ response' = None
    /\ decodes' = <<>> /\ result' = None /\ diag' = <<>>

\* The call returns before anything is sent.
ReturnsEarly(res) ==
    /\ pc' = "done"
    /\ result' = Some(res)
    /\ wire' = None /\ dispatched' = 0 /\ response' = None
    /\ decodes' = <<>> /\ diag' = <<>>
    /\ UNCHANGED cred

\* RequestBuilder::send(): the request goes out and the call suspends.
send(req) ==
    /\ pc' = "awaiting"
    /\ wire' = Some(req)
    /\ dispatched' = 1
    /\ response' = None /\ decodes' = <<>> /\ result' = None /\ diag' = <<>>
    /\ UNCHANGED cred

\* A resumption that sends the request again when the transport failed.
Resume_retrying(op, net, end) ==
    /\ pc = "awaiting"
    /\ lastOp = op
    /\ IF end.result.kind = "TransportFailure" /\ dispatched < 3
       THEN /\ dispatched' = dispatched + 1
            /\ pc' = "awaiting"
            /\ UNCHANGED <<response, decodes, result, diag>>
       ELSE /\ response' = net
            /\ decodes' = end.decodes
            /\ result' = Some(end.result)
            /\ diag' = end.diag
            /\ pc' = "done"
            /\ UNCHANGED dispatched
    /\ UNCHANGED <<cred, client, file, env, lastOp, path, wire, tokenSet, saved, auth>>

\* The call resumes with the transport's answer and returns.
Resume(op, net, end) ==
    /\ pc = "awaiting"
    /\ lastOp = op
    /\ response' = net
    /\ decodes' = end.decodes
    /\ result' = Some(end.result)
    /\ diag' = end.diag
    /\ pc' = "done"
    /\ UNCHANGED <<cred, client, file, env, lastOp, path, wire, dispatched,
                   tokenSet, saved, auth>>

\* serde_json::to_string(data), when data serializes.
JsonOfData == "{\"data\":1}"

\* The start of a call that carries a JSON body (post, put).
send_with_body(b, data_ok) ==
    IF b.panic THEN Panics
    ELSE IF ~data_ok
    THEN ReturnsEarly(FromSerdeError(LibError("serde_json", "to_string", "")))
    ELSE send([b.req EXCEPT !.body = Some(JsonOfData)])

\* The start of a call without a body (get, delete).
send_plain(b) == IF b.panic THEN Panics ELSE send(b.req)

get(p) == Invoke("get", p) /\ send_plain(build_request(cred, "GET", p))
get_resume(net) == Resume("get", net, get_finish(net))

post(p, data_ok) == Invoke("post", p) /\ send_with_body(build_request(cred, "POST", p), data_ok)
post_resume(net) == Resume("post", net, read_and_decode(net))

put(p, data_ok) == Invoke("put", p) /\ send_with_body(build_request(cred, "PUT", p), data_ok)
put_resume(net) == Resume("put", net, read_and_decode(net))

delete(p) == Invoke("delete", p) /\ send_plain(build_request(cred, "DELETE", p))
delete_resume(net) == Resume("delete", net, read_and_decode(net))

(***************************************************************************)
(* The client in use: built by new(file), its token rotated, requests made *)
(***************************************************************************)
Init ==
    /\ file \in Files
    /\ env = [n \in EnvNames |-> None]
    /\ LET c == Credentials_new(Some(CredPath), file, env) IN
        /\ cred = c.cred
        /\ pc = IF c.panic THEN "panicked" ELSE "idle"
    /\ lastOp = "new_file"
    /\ InitFrame

Next ==
    \/ new
    \/ \E t \in Strings : set_oauth_token(t)
    \/ \E p \in Paths : get(p)
    \/ \E net \in NetOutcomes : get_resume(net)
    \/ \E p \in Paths, d \in BOOLEAN : post(p, d)
    \/ \E net \in NetOutcomes : post_resume(net)
    \/ \E p \in Paths, d \in BOOLEAN : put(p, d)
    \/ \E net \in NetOutcomes : put_resume(net)
    \/ \E p \in Paths : delete(p)
    \/ \E net \in NetOutcomes : delete_resume(net)

Spec == Init /\ [][Next]_vars

(***************************************************************************)
(* Authorization URL generator                                             *)
(***************************************************************************)
\* enum Scope, in declaration order; Display prints the variant's name (Debug).
ScopeNames ==
    << "channel_check_subscription", "channel_commercial", "channel_editor",
       "channel_feed_edit", "channel_feed_read", "channel_read", "channel_stream",
       "channel_subscriptions", "chat_login", "user_blocks_edit", "user_blocks_read",
       "user_follows_edit", "user_read", "user_subscriptions", "viewing_activity_ready" >>
Scope == 1..Len(ScopeNames)
to_string(scope) == <<ScopeNames[scope]>>

\* str::trim_end_matches('+')
RECURSIVE trim_end_matches_plus(_)
trim_end_matches_plus(s) ==
    IF s # <<>> /\ s[Len(s)] = "+"
    THEN trim_end_matches_plus(SubSeq(s, 1, Len(s) - 1))
    ELSE s

\* The loop of format_scope: each name, then '+'.
RECURSIVE push_all(_)
push_all(scopes) ==
    IF scopes = <<>> THEN <<>>
    ELSE to_string(Head(scopes)) \o <<"+">> \o push_all(Tail(scopes))

\* A formatter that leaves the last separator in place.
format_scope_untrimmed(scopes) == push_all(scopes)

format_scope(scopes) == trim_end_matches_plus(push_all(scopes))

\* gen_auth_url; the client id is the string the credentials hold.
gen_auth_url(c, rtype, redirect_url, scope, state) ==
    <<"https://api.twitch.tv/kraken/oauth2/authorize">>
        \o <<"?response_type=">> \o rtype
        \o <<"&client_id=">> \o unwrap(c.client_id)
        \o <<"&redirect_uri=">> \o redirect_url
        \o <<"&scope=">> \o format_scope(scope)
        \o <<"&state=">> \o state

\* The scopes, redirect URLs and states the calls are made with.
ScopesUsed == {n \in Scope : ScopeNames[n] \in {"channel_read", "chat_login", "user_read"}}
ScopeSlices == UNION {[1..n -> ScopesUsed] : n \in 0..MaxScopes}
RedirectUrls == { <<"http://localhost/cb">>, <<"http://h/cb?a=1&b=+">> }
States == { <<"xyz">>, <<>> }

\* An authorization-URL call on the client: a pure read of its credentials.
AuthCall(flow, rtype, redirect_url, scope, state) ==
    /\ pc \in {"idle", "done"}
    /\ IsSome(cred.client_id)
    /\ authArgs' = Some([flow |-> flow, redirect_url |-> redirect_url,
                         scope |-> scope, state |-> state])
    /\ authUrl' = Some(gen_auth_url(cred, rtype, redirect_url, scope, state))
    /\ lastOp' = flow
    /\ pc' = "idle"
    /\ FrameReset
    /\ UNCHANGED <<cred, client, file, env, tokenSet, saved>>

auth_code_flow(redirect_url, scope, state) ==
    AuthCall("auth_code_flow", <<"code">>, redirect_url, scope, state)

imp_grant_flow(redirect_url, scope, state) ==
    AuthCall("imp_grant_flow", <<"token">>, redirect_url, scope, state)

NextAuth ==
    \/ new
    \/ \E r \in RedirectUrls, sc \in ScopeSlices, st \in States : auth_code_flow(r, sc, st)
    \/ \E r \in RedirectUrls, sc \in ScopeSlices, st \in States : imp_grant_flow(r, sc, st)

SpecAuth == Init /\ [][NextAuth]_vars

(***************************************************************************)
(* Properties                                                              *)
(***************************************************************************)
RequestOps == {"get", "post", "put", "delete"}
MethodOf(op) ==
    CASE op = "get" -> "GET" [] op = "post" -> "POST"
      [] op = "put" -> "PUT" [] op = "delete" -> "DELETE"

\* A request call has returned after a response with a readable body arrived.
Answered ==
    /\ pc = "done"
    /\ lastOp \in RequestOps
    /\ IsSome(response)
    /\ unwrap(response).intact

Body == unwrap(response).body
Returned == unwrap(result)

\* C1: for each of get, post, put and delete, a response with an empty body
\* makes the call fail with EmptyResponse, whatever the status, and no decode
\* of the body is attempted.
C1_EmptyBodyIsEmptyResponse ==
    (Answered /\ Body = BodyEmpty) => (Returned = empty_response /\ decodes = <<>>)

\* C1, for post, put and delete only (the part of C1 the code keeps).
C1_EmptyBodyPostPutDelete ==
    (Answered /\ lastOp # "get" /\ Body = BodyEmpty)
        => (Returned = empty_response /\ decodes = <<>>)

\* C2: for each request operation, a non-empty body that does not decode as
\* the target shape but decodes as ErrorResponse makes the call fail with
\* ApiError built from that ErrorResponse, whose cause is the failure of the
\* target-shape decode, which is attempted first.
C2_ErrorShapeIsApiError ==
    (Answered /\ Body # BodyEmpty
        /\ ~from_str("T", Body).ok /\ from_str("ErrorResponse", Body).ok)
    => /\ Returned.kind = "ApiError"
       /\ Returned.value =
            Some([shape |-> "ErrorResponse", json |-> Body,
                  cause |-> Some(LibError("serde_json", "T", Body))])
       /\ decodes = << [shape |-> "T", input |-> Body],
                       [shape |-> "ErrorResponse", input |-> Body] >>

\* C2, for post, put and delete only.
C2_ErrorShapePostPutDelete == (lastOp # "get") => C2_ErrorShapeIsApiError

\* C3: for each request operation, a non-empty body that decodes neither as
\* the target shape nor as ErrorResponse makes the call fail with
\* DecodeFailure carrying the error of the target-shape decode, with a
\* diagnostic holding the raw body on standard error; no other outcome
\* writes a diagnostic.
C3_UndecodableIsDecodeFailure ==
    /\ (Answered /\ Body # BodyEmpty
          /\ ~from_str("T", Body).ok /\ ~from_str("ErrorResponse", Body).ok)
       => /\ Returned = FromSerdeError(LibError("serde_json", "T", Body))
          /\ \E i \in DOMAIN diag : diag[i] = Body
    /\ (pc = "done" /\ Returned.kind # "DecodeFailure") => diag = <<>>

\* C3, for post, put and delete only.
C3_UndecodablePostPutDelete == (lastOp # "get") => C3_UndecodableIsDecodeFailure

\* C4: a request operation invoked while client_id or token is absent returns
\* an error to the caller as a value: it does not panic and dispatches nothing.
C4_AbsentCredentialIsAnError ==
    [][ (pc \in {"idle", "done"} /\ lastOp' \in RequestOps
            /\ (~IsSome(cred.client_id) \/ ~IsSome(cred.token)))
        => (pc' = "done" /\ IsSome(result') /\ unwrap(result').kind # "Ok"
            /\ dispatched' = 0) ]_vars

\* What the code does there: the call panics before anything is dispatched.
C4_AbsentCredentialPanics ==
    [][ (pc \in {"idle", "done"} /\ lastOp' \in RequestOps
            /\ (~IsSome(cred.client_id) \/ ~IsSome(cred.token)))
        => (pc' = "panicked" /\ result' = None /\ dispatched' = 0 /\ wire' = None) ]_vars

Outcomes ==
    {"Ok", "TransportFailure", "EmptyResponse", "DecodeFailure", "ApiError"}

C6_RequestAsBuilt ==
    IsSome(wire) =>
        LET r == unwrap(wire) IN
        /\ lastOp \in RequestOps
        /\ r.method = MethodOf(lastOp)
        /\ r.url = <<"https://api.twitch.tv/kraken">> \o unwrap(path)
        /\ r.headers =
              { <<"Accept", <<"application/vnd.twitchtv.v5+json">> >>,
                <<"Client-ID", unwrap(cred.client_id)>>,
                <<"Authorization", <<"OAuth ">> \o unwrap(cred.token)>> }
        /\ IsSome(tokenSet) =>
              <<"Authorization", <<"OAuth ">> \o unwrap(tokenSet)>> \in r.headers

C6_Witness ==
    /\ IsSome(wire) /\ lastOp = "delete" /\ IsSome(tokenSet)
    /\ unwrap(tokenSet) = <<"a", "\"">>
    /\ set_from_file(file).cred.token = Some(<<"a">>)

\* C7: set_oauth_token cannot fail and changes the token in memory only:
\* client_id, the transport handle, the credential file and the environment
\* stay as they were and nothing is written; the file changes in a save only,
\* so a reload without a save in between yields the token last saved.
C7_SetTokenInMemoryOnly ==
    [][ /\ (lastOp' = "set_oauth_token")
            => /\ pc' = "idle"
               /\ IsSome(cred'.token)
               /\ cred'.client_id = cred.client_id
               /\ client' = client
               /\ file' = file
               /\ env' = env
               /\ diag' = <<>>
        /\ (file' # file) => (lastOp' = "save")
        /\ (lastOp' = "new_file" /\ IsSome(saved))
            => (pc' = "idle" /\ cred'.token = unwrap(saved).token) ]_vars

C7_Witness ==
    /\ lastOp = "set_oauth_token" /\ IsSome(saved)
    /\ cred.token = Some(<<"\n">>)
    /\ unwrap(saved).token = Some(<<"a">>)
    /\ set_from_file(file).cred.token = Some(<<"a">>)

\* C8: after a save, loading the file yields exactly the client_id and token
\* saved, absent fields included; a load yields what the last completed save
\* wrote, whatever set_oauth_token calls came before or after it.
C8_SaveLoadRoundTrip ==
    /\ (lastOp = "save" /\ pc = "idle")
          => set_from_file(file) = [panic |-> FALSE, cred |-> cred]
    /\ IsSome(saved)
          => set_from_file(file) = [panic |-> FALSE, cred |-> unwrap(saved)]
    /\ (lastOp = "new_file" /\ IsSome(saved))
          => (pc = "idle" /\ cred = unwrap(saved))

C8_Witness ==
    /\ lastOp = "new_file" /\ pc = "idle" /\ IsSome(saved)
    /\ cred = [client_id |-> None, token |-> Some(<<"a", "\"">>)]

\* The separator-joined names of a scope slice, by position.
JoinedScopes(scope) ==
    [i \in 1..(IF Len(scope) = 0 THEN 0 ELSE 2 * Len(scope) - 1) |->
        IF i % 2 = 1 THEN ScopeNames[scope[(i + 1) \div 2]] ELSE "+"]

\* C9: the URL is the authorize endpoint followed by response_type, client_id,
\* redirect_uri, scope and state in that order, values verbatim; response_type
\* is "code" for auth_code_flow and "token" for imp_grant_flow, client_id is
\* the credentials' client_id, and scope is the names joined with '+' in input
\* order without a leading or trailing separator (empty for no scopes).
C9_AuthUrl ==
    IsSome(authUrl) =>
        LET a == unwrap(authArgs) IN
        unwrap(authUrl) =
            << "https://api.twitch.tv/kraken/oauth2/authorize", "?response_type=",
               (IF a.flow = "auth_code_flow" THEN "code" ELSE "token"),
               "&client_id=" >>
            \o unwrap(cred.client_id)
            \o <<"&redirect_uri=">> \o a.redirect_url
            \o <<"&scope=">> \o JoinedScopes(a.scope)
            \o <<"&state=">> \o a.state

C9_Witness ==
    /\ lastOp = "auth_code_flow"
    /\ cred.client_id = Some(<<"a">>)
    /\ authUrl = Some(<< "https://api.twitch.tv/kraken/oauth2/authorize",
                         "?response_type=", "code", "&client_id=", "a",
                         "&redirect_uri=", "http://localhost/cb",
                         "&scope=", "channel_read", "+", "user_read",
                         "&state=", "xyz" >>)

====
